---------------------------- MODULE Spec2Model ----------------------------
(***************************************************************************)
(* WavUp: conversion of a decoded audio stream to 16-bit PCM WAV.          *)
(*                                                                         *)
(* Two programs are modelled:                                              *)
(*   lib  - src/src/lib.rs,  AudioConverter::convert_audio_internal        *)
(*          (batch: decode everything, trim ending silence, resample,      *)
(*          write);                                                        *)
(*   cli  - src/src/main.rs, convert_to_wav                                *)
(*          (streaming: resample and write while packets arrive).          *)
(*                                                                         *)
(* A sample is an integer number of thousandths (500 is 0.5, -5 is         *)
(* -0.005), so that the threshold 0.01 and the scales 32768 / 32767 act on *)
(* exact values.  The decoder, the block resampler and the WAV sink are    *)
(* external collaborators: the decoder's output and the resampler's and    *)
(* the sink's failures are inputs of the model.                            *)
(***************************************************************************)
EXTENDS Integers, Sequences, FiniteSets, TLC

VARIABLES input, lib, cli

vars == <<input, lib, cli>>

----------------------------------------------------------------------------
(* Bounds of the model *)

\* the decoder delivers at most MaxPackets events before the end of stream
MaxPackets == 3

\* the nominal resampler block size, 4096 in the source, scaled down
BlockSize == 2

\* a decoded packet carries this many flattened samples
PacketLens == 1..2

SampleValues == {-5, 500}

ChannelCounts == {1, 2}

Rates == {2, 4}

\* 0: the resampler never fails; n: its n-th process call fails
FailAts == 0..2

----------------------------------------------------------------------------
(* Program constants *)

\* 32768.0_f32, the scale of lib.rs
Scale == 32768

\* i16::MAX, the scale of main.rs and the upper end of i16
I16_MAX == 32767

I16_MIN == (-I16_MAX) - 1

\* threshold = 0.01, in thousandths
threshold == 10

----------------------------------------------------------------------------
(* Arithmetic helpers *)

Abs(x) == IF x < 0 THEN -x ELSE x

Min(a, b) == IF a <= b THEN a ELSE b

MaxOf(S) == CHOOSE x \in S : \A y \in S : y <= x

RECURSIVE GCD(_, _)
GCD(a, b) == IF b = 0 THEN a ELSE GCD(b, a % b)

CeilDiv(a, b) == (a + b - 1) \div b

\* division truncating toward zero, as a float-to-int cast truncates
TruncDiv(a, b) == IF a >= 0 THEN a \div b ELSE -((-a) \div b)

SeqsUpTo(S, n) == UNION {[1..k -> S] : k \in 0..n}

----------------------------------------------------------------------------
(* Quantization: (sample * scale) as i16.  A Rust float-to-int cast        *)
(* truncates toward zero and saturates at the ends of the integer type.    *)

Saturate(x) == IF x > I16_MAX THEN I16_MAX ELSE IF x < I16_MIN THEN I16_MIN ELSE x

Quantize(sample, scale) == Saturate(TruncDiv(sample * scale, 1000))

QuantizeAll(samples, scale) == [i \in 1..Len(samples) |-> Quantize(samples[i], scale)]

----------------------------------------------------------------------------
(* The block resampler, FftFixedInOut::new(source, target, 4096, channels) *)

\* input_frames_next(): the block size rounded up to a whole number of
\* source/gcd frames
ChunkSizeIn(source, target) ==
    LET min_in == source \div GCD(source, target)
    IN  CeilDiv(BlockSize, min_in) * min_in

\* the length of the output of one process call
ChunkSizeOut(source, target) ==
    LET g == GCD(source, target)
    IN  CeilDiv(BlockSize, source \div g) * (target \div g)

\* The n-th process call of a conversion fails when the input says so.
ProcessFails(n) == input.failAt # 0 /\ n = input.failAt

\* process(chunk): one output block per channel.  The converter is opaque;
\* it is represented by the sample-and-hold of the input block, the same
\* function in both programs.
Process(chunk, source, target) ==
    LET cin  == ChunkSizeIn(source, target)
        cout == ChunkSizeOut(source, target)
    IN  [ch \in 1..Len(chunk) |->
            [j \in 1..cout |-> chunk[ch][(((j - 1) * cin) \div cout) + 1]]]

\* v.resize(n, 0.0)
Resize(s, n) == [i \in 1..n |-> IF i <= Len(s) THEN s[i] ELSE 0]

\* The record of one call resampler.process(&chunk, None): the block the
\* converter received, the frames of the input it was made of (before any
\* padding), and whether the call is that of the remaining samples.
Fed(log, chunk, frames, tail) ==
    Append(log, [chunk |-> chunk, frames |-> frames, tail |-> tail])

----------------------------------------------------------------------------
(* Channel layout *)

\* input_channels[i % channels].push(sample): positions are 0-based in the
\* source, channel ch of the model is channel ch - 1 of the source
Deinterleave(samples, channels) ==
    [ch \in 1..channels |->
        [k \in 1..((Len(samples) + channels - ch) \div channels) |->
            samples[(k - 1) * channels + ch]]]

\* for frame: for channel: buf[channel][frame]
Interleave(buf, frames, channels) ==
    [i \in 1..(frames * channels) |->
        buf[((i - 1) % channels) + 1][((i - 1) \div channels) + 1]]

\* accumulated_buffer[ch].extend / output_buffer[ch].append, per channel
AppendChannels(buf, more) == [ch \in 1..Len(buf) |-> buf[ch] \o more[ch]]

----------------------------------------------------------------------------
(* trim_ending_silence *)

is_silent(sample, thr) == Abs(sample) < thr

\* (0.5 * sample_rate as f32) as usize * channels
buffer_samples(channels, sample_rate) == (sample_rate \div 2) * channels

\* The scan `for i in (0..num_samples).rev().step_by(channels)` with the
\* inner loop over samples[i + ch]; indices are 0-based as in the source.
last_non_silent_index(samples, channels) ==
    LET num_samples == Len(samples) \div channels
        visited == {i \in 0..(num_samples - 1) : (num_samples - 1 - i) % channels = 0}
        hits == {i \in visited :
                    \E ch \in 0..(channels - 1) : ~is_silent(samples[i + ch + 1], threshold)}
    IN  IF hits = {} THEN 0 ELSE MaxOf(hits)

TrimUnchecked(samples, channels, sample_rate) ==
    LET trim_index == Min(last_non_silent_index(samples, channels) + channels - 1
                            + buffer_samples(channels, sample_rate),
                          Len(samples))
    IN  [ok |-> TRUE, val |-> SubSeq(samples, 1, trim_index)]

\* lines 340-361: the scan and the cut, with no check of the length
trim_unchecked(samples, channels, sample_rate) ==
    TrimUnchecked(samples, channels, sample_rate)

trim_ending_silence(samples, channels, sample_rate) ==
    IF Len(samples) % channels # 0
    THEN [ok |-> FALSE, val |-> <<>>]
    ELSE TrimUnchecked(samples, channels, sample_rate)

----------------------------------------------------------------------------
(* The decoder's output *)

Packet(s) == [kind |-> "packet", samples |-> s]

DecodeError == [kind |-> "decode_error", samples |-> <<>>]

ReadError == [kind |-> "read_error", samples |-> <<>>]

Packets == {Packet(s) : s \in {q \in SeqsUpTo(SampleValues, MaxOf(PacketLens)) : Len(q) \in PacketLens}}

Events == Packets \cup {DecodeError, ReadError}

\* what format.next_packet() and decoder.decode() give at position idx:
\* past the last event the reader reports the end of the stream
EventAt(idx) ==
    IF idx > Len(input.events) THEN [kind |-> "eof", samples |-> <<>>]
    ELSE input.events[idx]

Inputs ==
    {i \in [events : SeqsUpTo(Events, MaxPackets), channels : ChannelCounts,
            source : Rates, target : Rates, bufferType : {"F32", "S32"},
            failAt : FailAts] :
        \* no resampler exists when the rates are equal
        i.source = i.target => i.failAt = 0}

\* symphonia's planar AudioBuffer, which main.rs reads, holds whole frames
WholeFrames(i) ==
    \A k \in 1..Len(i.events) : Len(i.events[k].samples) % i.channels = 0

----------------------------------------------------------------------------
(* The sink: hound's WavWriter *)

\* write_sample for the first n samples of out
WriteSamples(p, out, n) == [p EXCEPT !.written = @ \o SubSeq(out, 1, n)]

\* the explicit call of finalize(); finalizedAt remembers how many samples
\* the sink held when it was called
FinalizeSkipped(p) == p

FinalizeCall(p) ==
    [p EXCEPT !.finalizeCalls = @ + 1,
              !.finalizedAt = IF @ < 0 THEN Len(p.written) ELSE @]

----------------------------------------------------------------------------
(* lib.rs: convert_audio_internal, from the creation of the WAV writer *)

LibOff ==
    [pc |-> "off", idx |-> 1, all_samples |-> <<>>, trimmed |-> <<>>,
     input_channels |-> <<>>, output_buffer |-> <<>>, pos |-> 0, calls |-> 0,
     decoderError |-> FALSE, written |-> <<>>, finalizeCalls |-> 0,
     finalizedAt |-> -1, result |-> "none", fed |-> <<>>]

LibStart == [LibOff EXCEPT !.pc = "decode"]

\* One iteration of `while let Ok(packet) = format.next_packet()` in
\* process_audio_samples; when the loop ends, the rest of the function
\* (trim_ending_silence) and the set-up of the branch taken.
LibNextPacket ==
    /\ lib.pc = "decode"
    /\ LET e == EventAt(lib.idx)
           t == trim_ending_silence(lib.all_samples, input.channels, input.source)
       IN  CASE e.kind = "packet" ->
                  lib' = [lib EXCEPT !.idx = @ + 1, !.all_samples = @ \o e.samples]
             [] e.kind = "decode_error" ->
                  \* decoder.decode(&packet)?
                  lib' = [lib EXCEPT !.idx = @ + 1, !.decoderError = TRUE,
                                     !.pc = "failed", !.result = "DecodeError"]
             [] OTHER ->
                  \* next_packet() returned Err: the end of the stream or any
                  \* other error of the reader
                  IF ~t.ok
                  THEN lib' = [lib EXCEPT !.decoderError = @ \/ (e.kind = "read_error"),
                                          !.pc = "failed", !.result = "InvalidSampleCount"]
                  ELSE IF input.source = input.target
                  THEN lib' = [lib EXCEPT !.decoderError = @ \/ (e.kind = "read_error"),
                                          !.trimmed = t.val, !.pc = "write_direct"]
                  ELSE lib' = [lib EXCEPT !.decoderError = @ \/ (e.kind = "read_error"),
                                          !.trimmed = t.val,
                                          !.input_channels = Deinterleave(t.val, input.channels),
                                          !.output_buffer = [ch \in 1..input.channels |-> <<>>],
                                          !.pos = 0,
                                          !.pc = "resample"]
    /\ UNCHANGED <<input, cli>>

\* for sample in all_samples { write_sample((sample * 32768.0) as i16)? }
\* n < Len(out): the sink fails at sample n + 1
LibWriteDirect ==
    /\ lib.pc = "write_direct"
    /\ LET out == QuantizeAll(lib.trimmed, Scale)
       IN  \E n \in 0..Len(out) :
             lib' = IF n = Len(out)
                    THEN [WriteSamples(lib, out, n) EXCEPT !.pc = "finalize"]
                    ELSE [WriteSamples(lib, out, n) EXCEPT !.pc = "failed", !.result = "IoError"]
    /\ UNCHANGED <<input, cli>>

\* the position moved on one frame too far
NextPosSkipping(pos, chunk_size) == pos + chunk_size + 1

\* pos += chunk_size
NextPos(pos, chunk_size) == pos + chunk_size

\* One iteration of `while pos + chunk_size <= input_channels[0].len()`.
LibProcessChunk ==
    /\ lib.pc = "resample"
    /\ LET chunk_size == ChunkSizeIn(input.source, input.target)
           n == lib.calls + 1
           chunk == [ch \in 1..input.channels |->
                        SubSeq(lib.input_channels[ch], lib.pos + 1, lib.pos + chunk_size)]
       IN  /\ lib.pos + chunk_size <= Len(lib.input_channels[1])
           /\ IF \E ch \in 1..input.channels :
                    lib.pos + chunk_size > Len(lib.input_channels[ch])
              THEN \* input_channels[ch][pos..pos + chunk_size] is out of range
                   lib' = [lib EXCEPT !.pc = "panicked", !.result = "panic"]
              ELSE lib' = [lib EXCEPT
                             !.calls = n, !.fed = Fed(@, chunk, chunk, FALSE),
                             !.pos = NextPos(@, chunk_size),
                             !.output_buffer =
                                 IF ProcessFails(n) THEN @
                                 ELSE AppendChannels(@, Process(chunk, input.source, input.target))]
    /\ UNCHANGED <<input, cli>>

\* The end of the chunk loop and `if pos < input_channels[0].len()`: the
\* remaining frames, zero-padded, processed and cut.
LibProcessTail ==
    /\ lib.pc = "resample"
    /\ LET chunk_size == ChunkSizeIn(input.source, input.target)
           len0 == Len(lib.input_channels[1])
           n == lib.calls + 1
           remaining == [ch \in 1..input.channels |->
                            SubSeq(lib.input_channels[ch], lib.pos + 1,
                                   Len(lib.input_channels[ch]))]
           final_chunk == [ch \in 1..input.channels |-> Resize(remaining[ch], chunk_size)]
           remaining_samples == ((len0 - lib.pos) * input.target) \div input.source
           resampled_chunk == Process(final_chunk, input.source, input.target)
       IN  /\ ~(lib.pos + chunk_size <= len0)
           /\ IF ~(lib.pos < len0)
              THEN lib' = [lib EXCEPT !.pc = "write_resampled"]
              ELSE IF \E ch \in 1..input.channels : lib.pos > Len(lib.input_channels[ch])
              THEN \* input_channels[ch][pos..] is out of range
                   lib' = [lib EXCEPT !.pc = "panicked", !.result = "panic"]
              ELSE IF ProcessFails(n)
              THEN lib' = [lib EXCEPT !.calls = n, !.fed = Fed(@, final_chunk, remaining, TRUE), !.pc = "write_resampled"]
              ELSE IF remaining_samples > ChunkSizeOut(input.source, input.target)
              THEN \* resampled_chunk[ch][..remaining_samples] is out of range
                   lib' = [lib EXCEPT !.calls = n, !.fed = Fed(@, final_chunk, remaining, TRUE), !.pc = "panicked", !.result = "panic"]
              ELSE lib' = [lib EXCEPT
                             !.calls = n, !.fed = Fed(@, final_chunk, remaining, TRUE),
                             !.output_buffer =
                                 AppendChannels(@, [ch \in 1..input.channels |->
                                     SubSeq(resampled_chunk[ch], 1, remaining_samples)]),
                             !.pc = "write_resampled"]
    /\ UNCHANGED <<input, cli>>

\* for i in 0..output_buffer[0].len() { for item in output_buffer { write } }
LibWriteResampled ==
    /\ lib.pc = "write_resampled"
    /\ LET frames == Len(lib.output_buffer[1])
       IN  IF \E ch \in 1..input.channels : Len(lib.output_buffer[ch]) < frames
           THEN lib' = [lib EXCEPT !.pc = "panicked", !.result = "panic"]
           ELSE LET out == QuantizeAll(Interleave(lib.output_buffer, frames, input.channels), Scale)
                IN  \E n \in 0..Len(out) :
                      lib' = IF n = Len(out)
                             THEN [WriteSamples(lib, out, n) EXCEPT !.pc = "finalize"]
                             ELSE [WriteSamples(lib, out, n) EXCEPT
                                      !.pc = "failed", !.result = "IoError"]
    /\ UNCHANGED <<input, cli>>

\* wav_writer.finalize()?; Ok(())
LibFinalize ==
    /\ lib.pc = "finalize"
    /\ \E ok \in BOOLEAN :
         lib' = IF ok
                THEN [FinalizeCall(lib) EXCEPT !.pc = "done", !.result = "Ok"]
                ELSE [FinalizeCall(lib) EXCEPT !.pc = "failed", !.result = "IoError"]
    /\ UNCHANGED <<input, cli>>

NextLib ==
    \/ LibNextPacket
    \/ LibWriteDirect
    \/ LibProcessChunk
    \/ LibProcessTail
    \/ LibWriteResampled
    \/ LibFinalize

----------------------------------------------------------------------------
(* main.rs: convert_to_wav, from the creation of the WAV writer *)

\* decoded: the samples of every packet the decoder decoded, in
\* interleaved order (kept for the statements about the input)
CliOff ==
    [pc |-> "off", idx |-> 1, accumulated_buffer |-> <<>>, calls |-> 0,
     decoderError |-> FALSE, decoded |-> <<>>, written |-> <<>>,
     finalizeCalls |-> 0, finalizedAt |-> -1, result |-> "none", fed |-> <<>>]

CliStart(channels) ==
    [CliOff EXCEPT !.pc = "decode",
                   !.accumulated_buffer = [ch \in 1..channels |-> <<>>]]

\* writer.write_sample(int_sample).unwrap() for every sample of out;
\* n < Len(out): the sink fails at sample n + 1 and unwrap panics
CliWrite(p, out, n, pc) ==
    IF n = Len(out)
    THEN [WriteSamples(p, out, n) EXCEPT !.pc = pc]
    ELSE [WriteSamples(p, out, n) EXCEPT !.pc = "panicked", !.result = "panic"]

\* One iteration of `while let Ok(packet) = format.next_packet()`, up to
\* the chunk loop: the packet is decoded and accumulated, and written at
\* once when no resampler exists.
CliNextPacket ==
    /\ cli.pc = "decode"
    /\ LET e == EventAt(cli.idx)
           chunk_size == ChunkSizeIn(input.source, input.target)
           buffer == Deinterleave(e.samples, input.channels)
           frames == Len(e.samples) \div input.channels
           acc == AppendChannels(cli.accumulated_buffer, buffer)
           out == QuantizeAll(Interleave(buffer, frames, input.channels), I16_MAX)
       IN  CASE e.kind = "packet" /\ input.bufferType = "F32" /\ input.source # input.target ->
                  cli' = [cli EXCEPT !.idx = @ + 1,
                                     !.decoded = @ \o e.samples,
                                     !.accumulated_buffer = acc,
                                     !.pc = IF Len(acc[1]) >= chunk_size THEN "drain" ELSE "decode"]
             [] e.kind = "packet" /\ input.bufferType = "F32" /\ input.source = input.target ->
                  \E n \in 0..Len(out) :
                    cli' = CliWrite([cli EXCEPT !.idx = @ + 1,
                                                !.decoded = @ \o e.samples,
                                                !.accumulated_buffer = acc],
                                    out, n, "decode")
             [] e.kind = "packet" /\ input.bufferType # "F32" ->
                  \* eprintln!("Unsupported audio buffer type")
                  cli' = [cli EXCEPT !.idx = @ + 1, !.decoded = @ \o e.samples]
             [] e.kind = "decode_error" ->
                  \* `if let Ok(decoded) = decoder.decode(&packet)` has no else
                  cli' = [cli EXCEPT !.idx = @ + 1, !.decoderError = TRUE]
             [] OTHER ->
                  \* next_packet() returned Err: the end of the stream or any
                  \* other error of the reader
                  cli' = [cli EXCEPT !.decoderError = @ \/ (e.kind = "read_error"),
                                     !.pc = "tail"]
    /\ UNCHANGED <<input, lib>>

\* One iteration of `while accumulated_buffer[0].len() >= chunk_size`.
CliProcessChunk ==
    /\ cli.pc = "drain"
    /\ LET chunk_size == ChunkSizeIn(input.source, input.target)
           n == cli.calls + 1
           input_buffer == [ch \in 1..input.channels |->
                               SubSeq(cli.accumulated_buffer[ch], 1, chunk_size)]
           drained == [ch \in 1..input.channels |->
                          SubSeq(cli.accumulated_buffer[ch], chunk_size + 1,
                                 Len(cli.accumulated_buffer[ch]))]
           output_buffer == Process(input_buffer, input.source, input.target)
           out == QuantizeAll(Interleave(output_buffer, Len(output_buffer[1]), input.channels),
                              I16_MAX)
           again == IF Len(drained[1]) >= chunk_size THEN "drain" ELSE "decode"
       IN  /\ Len(cli.accumulated_buffer[1]) >= chunk_size
           /\ IF \E ch \in 1..input.channels : Len(cli.accumulated_buffer[ch]) < chunk_size
              THEN \* accumulated_buffer[ch][..chunk_size] is out of range
                   cli' = [cli EXCEPT !.pc = "panicked", !.result = "panic"]
              ELSE IF ProcessFails(n)
              THEN \* .expect("Failed to resample audio")
                   cli' = [cli EXCEPT !.calls = n, !.fed = Fed(@, input_buffer, input_buffer, FALSE), !.accumulated_buffer = drained,
                                      !.pc = "panicked", !.result = "panic"]
              ELSE \E k \in 0..Len(out) :
                     cli' = CliWrite([cli EXCEPT !.calls = n, !.fed = Fed(@, input_buffer, input_buffer, FALSE), !.accumulated_buffer = drained],
                                     out, k, again)
    /\ UNCHANGED <<input, lib>>

\* `if let Some(resampler)` after the decode loop: what is left in
\* accumulated_buffer is padded, processed and written.
CliProcessTail ==
    /\ cli.pc = "tail"
    /\ LET chunk_size == ChunkSizeIn(input.source, input.target)
           n == cli.calls + 1
           padded == [ch \in 1..input.channels |->
                         IF Len(cli.accumulated_buffer[ch]) < chunk_size
                         THEN Resize(cli.accumulated_buffer[ch], chunk_size)
                         ELSE cli.accumulated_buffer[ch]]
           output_buffer == Process(padded, input.source, input.target)
           out == QuantizeAll(Interleave(output_buffer, Len(output_buffer[1]), input.channels),
                              I16_MAX)
       IN  IF input.source = input.target \/ Len(cli.accumulated_buffer[1]) = 0
           THEN cli' = [cli EXCEPT !.pc = "finalize"]
           ELSE IF ProcessFails(n)
           THEN \* .expect("Failed to resample audio")
                cli' = [cli EXCEPT !.calls = n, !.fed = Fed(@, padded, cli.accumulated_buffer, TRUE), !.accumulated_buffer = padded,
                                   !.pc = "panicked", !.result = "panic"]
           ELSE \E k \in 0..Len(out) :
                  cli' = CliWrite([cli EXCEPT !.calls = n, !.fed = Fed(@, padded, cli.accumulated_buffer, TRUE), !.accumulated_buffer = padded],
                                  out, k, "finalize")
    /\ UNCHANGED <<input, lib>>

\* writer.finalize().expect("Failed to finalize WAV file")
CliFinalize ==
    /\ cli.pc = "finalize"
    /\ \E ok \in BOOLEAN :
         cli' = IF ok
                THEN [FinalizeCall(cli) EXCEPT !.pc = "done", !.result = "Ok"]
                ELSE [FinalizeCall(cli) EXCEPT !.pc = "panicked", !.result = "panic"]
    /\ UNCHANGED <<input, lib>>

NextCli ==
    \/ CliNextPacket
    \/ CliProcessChunk
    \/ CliProcessTail
    \/ CliFinalize

----------------------------------------------------------------------------
(* Specifications *)

\* One run of one of the two programs.  The library reads every buffer
\* through SampleBuffer<f32>, so the decoder's buffer type is fixed there.
Init ==
    /\ input \in Inputs
    /\ \/ /\ input.bufferType = "F32"
          /\ lib = LibStart
          /\ cli = CliOff
       \/ /\ WholeFrames(input)
          /\ lib = LibOff
          /\ cli = CliStart(input.channels)

Next == NextLib \/ NextCli

Spec == Init /\ [][Next]_vars

\* Both programs, each run on the same decoder output with the same
\* resampler behaviour.
InitBoth ==
    /\ input \in Inputs
    /\ WholeFrames(input)
    /\ lib = LibStart
    /\ cli = CliStart(input.channels)

SpecBoth == InitBoth /\ [][Next]_vars

----------------------------------------------------------------------------
(* Vocabulary of the properties *)

Terminal(p) == p.pc \in {"done", "failed", "panicked"}

Aborted(p) == p.pc \in {"failed", "panicked"}

\* a process call of this conversion has failed
ProcFailed(p) == input.failAt # 0 /\ p.calls >= input.failAt

\* process_audio_samples has returned Ok: trim_ending_silence accepted the
\* decoded samples and lib.trimmed holds what it returned
TrimOk ==
    /\ lib.pc \notin {"off", "decode"}
    /\ lib.result \notin {"DecodeError", "InvalidSampleCount"}

\* the frames written to the sink, for N frames fed to the resampler
TailFormula(N, frames_out) ==
    LET C == ChunkSizeIn(input.source, input.target)
        k == N \div C
        r == N % C
    IN  r > 0 =>
          frames_out = k * ChunkSizeOut(input.source, input.target)
                         + ((r * input.target) \div input.source)

\* 0-based index of the last frame of samples holding a non-silent sample
HasSound(samples) == \E i \in 1..Len(samples) : ~is_silent(samples[i], threshold)

LastSoundFrame(samples, channels) ==
    MaxOf({(i - 1) \div channels : i \in {j \in 1..Len(samples) : ~is_silent(samples[j], threshold)}})

----------------------------------------------------------------------------
(* C1: when the rates differ and N = k*C + r frames (0 < r < C) reach the  *)
(* resampler, whose process calls succeed, a conversion that completes has *)
(* written k * ChunkSizeOut + floor(r * target / source) frames, in the    *)
(* batch program and in the streaming program.                             *)
C1_TailDurationProportional ==
    /\ (lib.pc = "done" /\ input.source # input.target /\ ~ProcFailed(lib)) =>
          TailFormula(Len(lib.input_channels[1]), Len(lib.written) \div input.channels)
    /\ (cli.pc = "done" /\ input.source # input.target /\ ~ProcFailed(cli)
          /\ input.bufferType = "F32") =>
          TailFormula(Len(cli.decoded) \div input.channels,
                      Len(cli.written) \div input.channels)

(* C2: once a process call has failed the conversion has failed: it is not *)
(* running on, processing or writing later chunks, and does not succeed.   *)
C2_ResamplerFailureIsFatal ==
    /\ ProcFailed(lib) => Aborted(lib)
    /\ ProcFailed(cli) => Aborted(cli)

(* C3: when the decoded sample count is not a multiple of the channel      *)
(* count, convert_audio_internal returns the malformed-audio error of      *)
(* trim_ending_silence and the sink has received no sample; nothing is     *)
(* written while packets are still being decoded.                          *)
C3_RaggedInputFailsBeforeAnyWrite ==
    /\ lib.pc = "decode" => lib.written = <<>>
    /\ (/\ lib.pc \notin {"off", "decode"}
        /\ lib.result # "DecodeError"
        /\ Len(lib.all_samples) % input.channels # 0) =>
          /\ lib.pc = "failed"
          /\ lib.result = "InvalidSampleCount"
          /\ lib.written = <<>>
          /\ lib.calls = 0

C3_Witness ==
    /\ lib.result = "InvalidSampleCount"
    /\ input.source # input.target
    /\ Len(lib.all_samples) = 3
    /\ HasSound(lib.all_samples)

(* C4: for a buffer with a non-silent sample, trim_ending_silence returns  *)
(* a prefix that keeps every frame up to the last one with a non-silent    *)
(* sample in any channel and ends at most the guard after that frame.      *)
C4_TrimKeepsLastSoundPlusGuard ==
    (TrimOk /\ HasSound(lib.all_samples)) =>
        LET end == (LastSoundFrame(lib.all_samples, input.channels) + 1) * input.channels
        IN  /\ lib.trimmed = SubSeq(lib.all_samples, 1, Len(lib.trimmed))
            /\ Len(lib.trimmed) >= end
            /\ Len(lib.trimmed) <= Min(end + buffer_samples(input.channels, input.source),
                                       Len(lib.all_samples))

(* C5: trim_ending_silence applied to its own output returns that output.  *)
C5_TrimIdempotent ==
    TrimOk =>
        trim_ending_silence(lib.trimmed, input.channels, input.source)
            = [ok |-> TRUE, val |-> lib.trimmed]

(* C6: run on the same decoded f32 frames with the same rates and          *)
(* resampler, the streaming and the batch program, when both complete,     *)
(* have written the same samples.                                          *)
C6_StreamingEqualsBatch ==
    (lib.pc = "done" /\ cli.pc = "done" /\ input.bufferType = "F32") =>
        lib.written = cli.written

(* C7: with equal rates the resampler is never invoked and a completed     *)
(* conversion has written exactly quantize(x) = trunc(x * 32768) of every  *)
(* decoded (f32) sample x, in the decoded interleaved order.               *)
C7_IdentityPath ==
    /\ (lib.pc = "done" /\ input.source = input.target) =>
          lib.calls = 0 /\ lib.written = QuantizeAll(lib.all_samples, Scale)
    /\ (cli.pc = "done" /\ input.source = input.target /\ input.bufferType = "F32") =>
          cli.calls = 0 /\ cli.written = QuantizeAll(cli.decoded, Scale)

(* C8: once reading or decoding a packet has failed with an error other    *)
(* than the end of the stream, the conversion has aborted.                 *)
C8_DecoderFailureIsFatal ==
    /\ lib.decoderError => Aborted(lib)
    /\ cli.decoderError => Aborted(cli)

(* C9 as claimed: every way out of a conversion has called finalize()      *)
(* exactly once.                                                           *)
C9_FinalizeOnEveryPath ==
    /\ Terminal(lib) => lib.finalizeCalls = 1
    /\ Terminal(cli) => cli.finalizeCalls = 1

FinalizedOnce(p) ==
    /\ p.finalizeCalls <= 1
    /\ p.pc = "done" => p.finalizeCalls = 1
    /\ p.finalizeCalls >= 1 => (Terminal(p) /\ p.finalizedAt = Len(p.written))

(* C9 as amended: finalize() is called at most once; a conversion that     *)
(* completes successfully has called it exactly once; and the sink holds   *)
(* after the call exactly the samples it held at the call.                 *)
C9_FinalizeOnceOnSuccess == FinalizedOnce(lib) /\ FinalizedOnce(cli)

C9_Witness ==
    /\ lib.pc = "done"
    /\ lib.finalizeCalls = 1
    /\ input.source # input.target
    /\ Len(lib.written) > 0

(* C10: what trim_ending_silence returns has a length that is a multiple   *)
(* of the channel count, the deinterleaved channels have equal lengths and *)
(* no chunk slice is out of range.                                         *)
C10_ChannelsStayAligned ==
    TrimOk =>
        /\ Len(lib.trimmed) % input.channels = 0
        /\ \A ch \in 1..Len(lib.input_channels) :
              Len(lib.input_channels[ch]) = Len(lib.input_channels[1])
        /\ lib.result # "panic"

----------------------------------------------------------------------------
(* The chunking loop *)

IsPrefix(a, b) == Len(a) <= Len(b) /\ a = SubSeq(b, 1, Len(a))

\* the input frames of channel ch that the process calls of log received
RECURSIVE FedFrames(_, _)
FedFrames(log, ch) ==
    IF log = <<>> THEN <<>>
    ELSE FedFrames(SubSeq(log, 1, Len(log) - 1), ch) \o log[Len(log)].frames[ch]

TailCalls(p) == Cardinality({i \in 1..Len(p.fed) : p.fed[i].tail})

\* the frames the chunking loop of each program works on, per channel:
\* input_channels in lib.rs, everything appended to accumulated_buffer in
\* main.rs
LibStream == lib.input_channels

CliStream ==
    Deinterleave(IF input.bufferType = "F32" THEN cli.decoded ELSE <<>>, input.channels)

\* Every process call so far received exactly chunk_size frames in every
\* channel, the frames received are, in order, a prefix of the stream with
\* nothing left out or repeated, a full chunk is chunk_size frames of the
\* stream, the call for the remaining frames is the last call, is made
\* after the decode loop and receives between 1 and chunk_size - 1 frames
\* of the stream, zero-padded.
ChunkingOrder(p, stream) ==
    LET chunk_size == ChunkSizeIn(input.source, input.target)
    IN  /\ Len(p.fed) = p.calls
        /\ p.calls > 0 => input.source # input.target
        /\ \A ch \in 1..Len(stream) : IsPrefix(FedFrames(p.fed, ch), stream[ch])
        /\ \A i \in 1..Len(p.fed) :
              /\ \A ch \in 1..input.channels :
                    /\ Len(p.fed[i].chunk[ch]) = chunk_size
                    /\ IsPrefix(p.fed[i].frames[ch], p.fed[i].chunk[ch])
                    /\ \A j \in (Len(p.fed[i].frames[ch]) + 1)..chunk_size :
                          p.fed[i].chunk[ch][j] = 0
              /\ ~p.fed[i].tail => p.fed[i].frames = p.fed[i].chunk
              /\ p.fed[i].tail =>
                    /\ i = Len(p.fed)
                    /\ p.pc \notin {"decode", "drain", "resample"}
                    /\ Len(p.fed[i].frames[1]) \in 1..(chunk_size - 1)

\* a conversion that resampled and completed
Resampled(p) == p.pc = "done" /\ input.source # input.target

(* C11 as claimed: the frames are fed in order, none skipped or fed twice, *)
(* every process call receives exactly chunk_size frames per channel, the  *)
(* complete chunks come before the tail, and a completed resampling        *)
(* conversion of a non-empty stream has run the tail exactly once.         *)
C11_TailExactlyOnce ==
    /\ ChunkingOrder(lib, LibStream)
    /\ ChunkingOrder(cli, CliStream)
    /\ (Resampled(lib) /\ Len(LibStream[1]) > 0) => TailCalls(lib) = 1
    /\ (Resampled(cli) /\ Len(CliStream[1]) > 0) => TailCalls(cli) = 1

ChunkingComplete(p, stream) ==
    Resampled(p) =>
        /\ \A ch \in 1..Len(stream) : FedFrames(p.fed, ch) = stream[ch]
        /\ TailCalls(p) =
              IF Len(stream[1]) % ChunkSizeIn(input.source, input.target) = 0 THEN 0 ELSE 1

(* C11 as amended: as claimed, but the tail runs at most once, and in a    *)
(* completed resampling conversion it has run once when the frame count is *)
(* not a multiple of chunk_size and not at all when it is; by then every   *)
(* frame of the stream has been fed.                                       *)
C11_ChunkingLoopOrdering ==
    /\ ChunkingOrder(lib, LibStream)
    /\ ChunkingOrder(cli, CliStream)
    /\ TailCalls(lib) <= 1
    /\ TailCalls(cli) <= 1
    /\ ChunkingComplete(lib, LibStream)
    /\ ChunkingComplete(cli, CliStream)

\* one complete chunk and then the tail, in each program
C11_Witness ==
    \/ /\ Resampled(lib)
       /\ Len(lib.fed) = 2
       /\ ~lib.fed[1].tail
       /\ lib.fed[2].tail
    \/ /\ Resampled(cli)
       /\ Len(cli.fed) = 2
       /\ ~cli.fed[1].tail
       /\ cli.fed[2].tail

============================================================================
